---- MODULE Spec2Model ----
(***************************************************************************)
(* Model of the ext_proc aggregation service (pkg/server/server.go).       *)
(*                                                                         *)
(* One Process handler runs per stream.  A request-headers event that      *)
(* carries a user id makes the handler fan out to two fetch goroutines     *)
(* (albums, posts), wait on a sync.WaitGroup, merge and marshal the two    *)
(* results and send them back as the replacement body.                     *)
(***************************************************************************)
EXTENDS Integers, Sequences, FiniteSets, TLC

\* Bounds of the exploration.
MaxEvents == 2         \* events received on the stream of a one-stream run
MaxStreamEvents == 1   \* events received over all streams of a run with several streams
MaxHeaders == 2        \* entries of a header sequence given to the inspector alone

Streams == {"s1", "s2"}

----------------------------------------------------------------------------
(* Strings that the code inspects rune by rune are sequences of runes.     *)

AsciiUpper == {"U", "S", "E", "R", "I", "D"}
\* U+0130, LATIN CAPITAL LETTER I WITH DOT ABOVE: not ASCII, lower-cases to i
IDotAbove == "U+0130"
Runes == {"u", "s", "e", "r", "i", "d", "x", "-"} \cup AsciiUpper \cup {IDotAbove}

\* unicode.ToLower on one rune (simple case mapping), as strings.ToLower applies it
ToLowerRune(c) ==
    CASE c = "U" -> "u"
      [] c = "S" -> "s"
      [] c = "E" -> "e"
      [] c = "R" -> "r"
      [] c = "I" -> "i"
      [] c = "D" -> "d"
      [] c = IDotAbove -> "i"
      [] OTHER -> c

\* strings.ToLower
ToLower(k) == [i \in DOMAIN k |-> ToLowerRune(k[i])]

\* the literal "userid" of getUserIdFromHeaders
UserIdKey == <<"u", "s", "e", "r", "i", "d">>

\* header keys that occur in the explored header sequences
Keys ==
    { <<"u", "s", "e", "r", "i", "d">>,
      <<"U", "s", "e", "r", "I", "d">>,
      <<"U", "S", "E", "R", "I", "D">>,
      <<"U", "S", "E", "R", IDotAbove, "D">>,
      <<"u", "s", "e", "r">>,
      <<"x", "-", "i", "d">>,
      <<"u", "s", "e", "r", "-", "i", "d">> }

\* raw header values; the empty value is a legal header value
RawValues == {"", "1", "2"}

\* core.HeaderValue: the fields the code reads
HeaderValue(k, v) == [Key |-> k, RawValue |-> v]

\* getUserIdFromHeaders with the last matching entry winning
getUserIdFromHeaders_LastWins(headers) ==
    LET hit == {i \in DOMAIN headers : ToLower(headers[i].Key) = UserIdKey}
    IN  IF hit = {} THEN ""
        ELSE headers[CHOOSE i \in hit : \A j \in hit : j <= i].RawValue

\* getUserIdFromHeaders comparing the key without lower-casing it
getUserIdFromHeaders_CaseSensitive(headers) ==
    LET hit == {i \in DOMAIN headers : headers[i].Key = UserIdKey}
    IN  IF hit = {} THEN ""
        ELSE headers[CHOOSE i \in hit : \A j \in hit : i <= j].RawValue

RECURSIVE ScanHeaders(_, _)
\* the range loop of getUserIdFromHeaders, from entry i on
ScanHeaders(headers, i) ==
    IF i > Len(headers) THEN ""
    ELSE IF ToLower(headers[i].Key) = UserIdKey THEN headers[i].RawValue
    ELSE ScanHeaders(headers, i + 1)

\* Server.getUserIdFromHeaders
getUserIdFromHeaders(headers) == ScanHeaders(headers, 1)

----------------------------------------------------------------------------
(* Go values: a slice is nil or holds elements; the backend's replies are   *)
(* JSON documents, decoded into structs and marshalled back under the      *)
(* struct tags.                                                            *)

\* a nil slice (var albumsResp []AlbumResponse)
NilSlice == [nil |-> TRUE, elems |-> <<>>]
Slice(es) == [nil |-> FALSE, elems |-> es]

\* the JSON value null, and a JSON array
JsonNull == [null |-> TRUE, items |-> <<>>]
JsonArray(items) == [null |-> FALSE, items |-> items]

\* JSON documents the albums backend may answer with (arrays of objects)
AlbumReplies ==
    { <<[id |-> 1, userId |-> 42, title |-> "x"], [id |-> 2, userId |-> 42, title |-> "w"]>>,
      <<>> }

\* JSON documents the posts backend may answer with
PostReplies ==
    { <<[id |-> 9, userId |-> 42, title |-> "y", body |-> "z"],
        [id |-> 8, userId |-> 42, title |-> "v", body |-> "t"]>> }

\* json decoding of one object into AlbumResponse / PostResponse
DecodeAlbum(j) == [Id |-> j.id, UserId |-> j.userId, Title |-> j.title]
DecodePost(j) == [Id |-> j.id, UserId |-> j.userId, Title |-> j.title, Body |-> j.body]
DecodeAlbums(doc) == Slice([i \in DOMAIN doc |-> DecodeAlbum(doc[i])])
DecodePosts(doc) == Slice([i \in DOMAIN doc |-> DecodePost(doc[i])])

\* what a failed Decode may leave in postResp: nothing, or the elements decoded so far
PartialPosts ==
    {NilSlice} \cup
    {Slice(SubSeq(DecodePosts(doc).elems, 1, 1)) : doc \in {d \in PostReplies : Len(d) > 1}}

\* json.Marshal of the struct types, field names taken from the struct tags
MarshalAlbum(a) == [id |-> a.Id, userId |-> a.UserId, title |-> a.Title]
MarshalPost(p) == [id |-> p.Id, userId |-> p.UserId, title |-> p.Title, body |-> p.Body]

MarshalAlbums(sl) ==
    IF sl.nil THEN JsonNull
    ELSE JsonArray([i \in DOMAIN sl.elems |-> MarshalAlbum(sl.elems[i])])
MarshalPosts(sl) ==
    IF sl.nil THEN JsonNull
    ELSE JsonArray([i \in DOMAIN sl.elems |-> MarshalPost(sl.elems[i])])

\* json.Marshal(AggregatedData)
Marshal(agg) == [albums |-> MarshalAlbums(agg.Albums), posts |-> MarshalPosts(agg.Posts)]

----------------------------------------------------------------------------
(* Messages of the stream.                                                 *)

NonHeaderKinds ==
    {"RequestBody", "RequestTrailers", "ResponseHeaders", "ResponseBody",
     "ResponseTrailers", "Unset"}

\* header sequences the proxy sends on the explored streams: without the user id,
\* with it (twice, in mixed case, after another header), and with an empty first value
StreamHeaders ==
    { <<HeaderValue(<<"x", "-", "i", "d">>, "1")>>,
      <<HeaderValue(<<"x", "-", "i", "d">>, "1"),
        HeaderValue(<<"U", "S", "E", "R", "I", "D">>, "2"),
        HeaderValue(<<"u", "s", "e", "r", "i", "d">>, "1")>>,
      <<HeaderValue(<<"u", "s", "e", "r", "i", "d">>, ""),
        HeaderValue(<<"U", "s", "e", "r", "I", "d">>, "1")>> }

\* ProcessingRequest: the populated variant and, for request headers, the headers
Events ==
    {[kind |-> "RequestHeaders", headers |-> h] : h \in StreamHeaders} \cup
    {[kind |-> k, headers |-> <<>>] : k \in NonHeaderKinds}

\* &ProcessingResponse{}: no variant set
EmptyResponse == [oneof |-> "none", response |-> <<>>]

\* ProcessingResponse_RequestHeaders around &HeadersResponse{}: Response is nil
PassthroughResponse == [oneof |-> "RequestHeaders", response |-> <<>>]

\* ProcessingResponse_RequestHeaders with CONTINUE_AND_REPLACE and a body mutation
ReplaceResponse(body) ==
    [oneof |-> "RequestHeaders",
     response |-> <<[Status |-> "CONTINUE_AND_REPLACE", BodyMutation |-> <<body>>]>>]

----------------------------------------------------------------------------
(* State.                                                                  *)

VARIABLES
    openable,        \* the streams the proxy opens in this run
    budget,          \* how many events the proxy sends in this run, over all streams
    exited,          \* the process has ended (os.Exit under Log.Fatal, or a goroutine's panic)
    pc,              \* per stream: where its Process handler stands
    ctxDone,         \* per stream: srv.Context() is cancelled
    recvd,           \* per stream: the events Recv has returned, in order
    sent,            \* per stream: the responses Send has accepted, in order
    resp,            \* per stream: the local resp of Process
    retErr,          \* per stream: what Process returned ("running" until it returns)
    userId,          \* per stream: the id given to fetchAggregatedResources
    wg,              \* per stream: the WaitGroup counter of the current aggregation
    albumsResp,      \* per stream: the variable albumsResp of fetchAggregatedResources
    postsResp,       \* per stream: the variable postsResp of fetchAggregatedResources
    aggregatedData,  \* per stream: the local aggregatedData being filled
    gAlbums,         \* per stream: the goroutine that runs fetchAlbums
    gPosts,          \* per stream: the goroutine that runs fetchPosts
    fetchLog,        \* per stream: the backend calls made so far, per resource kind
    inspIn,          \* the header sequence handed to the inspector on its own
    inspOut,         \* what the inspector returned for inspIn
    inspPc,          \* "idle", "ready" or "done"
    mainPc,          \* where start() stands: "Serving", "Signalled", "Stopping", "Returned"
    exitCode,        \* what start() returns to os.Exit
    checkResp,       \* the last call of HealthServer.Check: its request and what it returned
    watchResp        \* the last call of HealthServer.Watch: its request, its error, what it sent

vars ==
    <<openable, budget, exited, pc, ctxDone, recvd, sent, resp, retErr, userId, wg, albumsResp,
      postsResp, aggregatedData, gAlbums, gPosts, fetchLog, inspIn, inspOut, inspPc,
      mainPc, exitCode, checkResp, watchResp>>

streamVars == <<pc, ctxDone, recvd, sent, resp, retErr>>
aggVars == <<userId, wg, albumsResp, postsResp, aggregatedData, gAlbums, gPosts>>
inspVars == <<inspIn, inspOut, inspPc>>
envVars == <<openable, budget>>
mainVars == <<mainPc, exitCode>>
healthVars == <<checkResp, watchResp>>

\* no health call has been made
NoCheck == [service |-> "", status |-> "none", err |-> "none"]
NoWatch == [service |-> "", err |-> "none", sent |-> 0]

Terminal == {"ClosedByPeer", "ClosedByCancellation", "Failed"}

\* a goroutine that is not running
NoGoroutine == [pc |-> "none", id |-> "", ret |-> NilSlice]

\* AggregatedData{}
EmptyAggregate == [Albums |-> NilSlice, Posts |-> NilSlice]

RECURSIVE SumLen(_, _)
SumLen(f, S) ==
    IF S = {} THEN 0
    ELSE LET x == CHOOSE y \in S : TRUE IN Len(f[x]) + SumLen(f, S \ {x})

\* events received so far over all streams
TotalRecvd == SumLen(recvd, Streams)

\* the state once the server is constructed and serving, before any stream
Start ==
    /\ exited = FALSE
    /\ pc = [s \in Streams |-> "NotStarted"]
    /\ ctxDone = [s \in Streams |-> FALSE]
    /\ recvd = [s \in Streams |-> <<>>]
    /\ sent = [s \in Streams |-> <<>>]
    /\ resp = [s \in Streams |-> EmptyResponse]
    /\ retErr = [s \in Streams |-> "running"]
    /\ userId = [s \in Streams |-> ""]
    /\ wg = [s \in Streams |-> 0]
    /\ albumsResp = [s \in Streams |-> NilSlice]
    /\ postsResp = [s \in Streams |-> NilSlice]
    /\ aggregatedData = [s \in Streams |-> EmptyAggregate]
    /\ gAlbums = [s \in Streams |-> NoGoroutine]
    /\ gPosts = [s \in Streams |-> NoGoroutine]
    /\ fetchLog = [s \in Streams |-> [Albums |-> <<>>, Posts |-> <<>>]]
    /\ mainPc = "Serving"
    /\ exitCode = 0
    /\ checkResp = NoCheck
    /\ watchResp = NoWatch

\* the inspector is not exercised on its own
InspectorIdle ==
    /\ inspIn = <<>>
    /\ inspOut = ""
    /\ inspPc = "idle"

\* one stream
Init ==
    /\ openable = {"s1"}
    /\ budget = MaxEvents
    /\ Start
    /\ InspectorIdle

\* several streams at once
InitStreams ==
    /\ openable = Streams
    /\ budget = MaxStreamEvents
    /\ Start
    /\ InspectorIdle

----------------------------------------------------------------------------
(* Server.Process: the loop of one stream.                                 *)

\* gRPC starts the handler for a new stream
Open(s) ==
    /\ ~exited
    /\ s \in openable
    /\ mainPc \in {"Serving", "Signalled"}
    /\ pc[s] = "NotStarted"
    /\ pc' = [pc EXCEPT ![s] = "Head"]
    /\ UNCHANGED <<exited, ctxDone, recvd, sent, resp, retErr, fetchLog>>
    /\ UNCHANGED aggVars
    /\ UNCHANGED inspVars
    /\ UNCHANGED envVars
    /\ UNCHANGED mainVars
    /\ UNCHANGED healthVars

\* a cancellation that reaches the context of every stream
Cancel_All(s) ==
    /\ ~exited
    /\ pc[s] \notin Terminal \cup {"NotStarted"}
    /\ ~ctxDone[s]
    /\ ctxDone' = [o \in Streams |-> TRUE]
    /\ UNCHANGED <<exited, pc, recvd, sent, resp, retErr, fetchLog>>
    /\ UNCHANGED aggVars
    /\ UNCHANGED inspVars
    /\ UNCHANGED envVars
    /\ UNCHANGED mainVars
    /\ UNCHANGED healthVars

\* the stream's context is cancelled (peer disconnect, deadline) while the handler runs
Cancel(s) ==
    /\ ~exited
    /\ pc[s] \notin Terminal \cup {"NotStarted"}
    /\ ~ctxDone[s]
    /\ ctxDone' = [ctxDone EXCEPT ![s] = TRUE]
    /\ UNCHANGED <<exited, pc, recvd, sent, resp, retErr, fetchLog>>
    /\ UNCHANGED aggVars
    /\ UNCHANGED inspVars
    /\ UNCHANGED envVars
    /\ UNCHANGED mainVars
    /\ UNCHANGED healthVars

\* a loop head without the select: Process goes to Recv whatever the context says
SelectCtx_Ignore(s) ==
    /\ ~exited
    /\ pc[s] = "Head"
    /\ pc' = [pc EXCEPT ![s] = "Recv"]
    /\ UNCHANGED <<exited, ctxDone, recvd, sent, resp, retErr, fetchLog>>
    /\ UNCHANGED aggVars
    /\ UNCHANGED inspVars
    /\ UNCHANGED envVars
    /\ UNCHANGED mainVars
    /\ UNCHANGED healthVars

\* the select at the head of the loop
SelectCtx(s) ==
    /\ ~exited
    /\ pc[s] = "Head"
    /\ IF ctxDone[s]
       THEN /\ pc' = [pc EXCEPT ![s] = "ClosedByCancellation"]
            /\ retErr' = [retErr EXCEPT ![s] = "ctx.Err"]
       ELSE /\ pc' = [pc EXCEPT ![s] = "Recv"]
            /\ UNCHANGED retErr
    /\ UNCHANGED <<exited, ctxDone, recvd, sent, resp, fetchLog>>
    /\ UNCHANGED aggVars
    /\ UNCHANGED inspVars
    /\ UNCHANGED envVars
    /\ UNCHANGED mainVars
    /\ UNCHANGED healthVars

\* the test of aggregateServices that leaves the request alone, never taken
Passthrough_Never(id) == FALSE

\* aggregateServices: userIdString == ""
Passthrough(id) == id = ""

\* the type switch returning an error from its default case instead of logging
RecvMsg_UnsetFails(s, ev) ==
    /\ ~exited
    /\ pc[s] = "Recv"
    /\ TotalRecvd < budget
    /\ recvd' = [recvd EXCEPT ![s] = Append(@, ev)]
    /\ IF ev.kind = "RequestHeaders"
       THEN LET userIdString == getUserIdFromHeaders(ev.headers)
            IN  IF Passthrough(userIdString)
                THEN /\ resp' = [resp EXCEPT ![s] = PassthroughResponse]
                     /\ pc' = [pc EXCEPT ![s] = "Send"]
                     /\ UNCHANGED <<userId, retErr>>
                ELSE /\ resp' = [resp EXCEPT ![s] = EmptyResponse]
                     /\ pc' = [pc EXCEPT ![s] = "FanOutAlbums"]
                     /\ userId' = [userId EXCEPT ![s] = userIdString]
                     /\ UNCHANGED retErr
       ELSE IF ev.kind = "Unset"
            THEN /\ resp' = [resp EXCEPT ![s] = EmptyResponse]
                 /\ pc' = [pc EXCEPT ![s] = "Failed"]
                 /\ retErr' = [retErr EXCEPT ![s] = "Unknown"]
                 /\ UNCHANGED userId
            ELSE /\ resp' = [resp EXCEPT ![s] = EmptyResponse]
                 /\ pc' = [pc EXCEPT ![s] = "Send"]
                 /\ UNCHANGED <<userId, retErr>>
    /\ UNCHANGED <<exited, ctxDone, sent, fetchLog>>
    /\ UNCHANGED <<wg, albumsResp, postsResp, aggregatedData, gAlbums, gPosts>>
    /\ UNCHANGED inspVars
    /\ UNCHANGED envVars
    /\ UNCHANGED mainVars
    /\ UNCHANGED healthVars

\* srv.Recv returns an event; the type switch and, for request headers, the start of
\* aggregateServices
RecvMsg(s, ev) ==
    /\ ~exited
    /\ pc[s] = "Recv"
    /\ TotalRecvd < budget
    /\ recvd' = [recvd EXCEPT ![s] = Append(@, ev)]
    /\ IF ev.kind = "RequestHeaders"
       THEN LET userIdString == getUserIdFromHeaders(ev.headers)
            IN  IF Passthrough(userIdString)
                THEN /\ resp' = [resp EXCEPT ![s] = PassthroughResponse]
                     /\ pc' = [pc EXCEPT ![s] = "Send"]
                     /\ UNCHANGED userId
                ELSE /\ resp' = [resp EXCEPT ![s] = EmptyResponse]
                     /\ pc' = [pc EXCEPT ![s] = "FanOutAlbums"]
                     /\ userId' = [userId EXCEPT ![s] = userIdString]
       ELSE /\ resp' = [resp EXCEPT ![s] = EmptyResponse]
            /\ pc' = [pc EXCEPT ![s] = "Send"]
            /\ UNCHANGED userId
    /\ UNCHANGED <<exited, ctxDone, sent, retErr, fetchLog>>
    /\ UNCHANGED <<wg, albumsResp, postsResp, aggregatedData, gAlbums, gPosts>>
    /\ UNCHANGED inspVars
    /\ UNCHANGED envVars
    /\ UNCHANGED mainVars
    /\ UNCHANGED healthVars

\* srv.Recv returns io.EOF and a last decision is sent before the return
RecvEOF_SendsFinal(s) ==
    /\ ~exited
    /\ pc[s] = "Recv"
    /\ pc' = [pc EXCEPT ![s] = "ClosedByPeer"]
    /\ retErr' = [retErr EXCEPT ![s] = "nil"]
    /\ sent' = [sent EXCEPT ![s] = Append(@, EmptyResponse)]
    /\ UNCHANGED <<exited, ctxDone, recvd, resp, fetchLog>>
    /\ UNCHANGED aggVars
    /\ UNCHANGED inspVars
    /\ UNCHANGED envVars
    /\ UNCHANGED mainVars
    /\ UNCHANGED healthVars

\* srv.Recv returns io.EOF
RecvEOF(s) ==
    /\ ~exited
    /\ pc[s] = "Recv"
    /\ pc' = [pc EXCEPT ![s] = "ClosedByPeer"]
    /\ retErr' = [retErr EXCEPT ![s] = "nil"]
    /\ UNCHANGED <<exited, ctxDone, recvd, sent, resp, fetchLog>>
    /\ UNCHANGED aggVars
    /\ UNCHANGED inspVars
    /\ UNCHANGED envVars
    /\ UNCHANGED mainVars
    /\ UNCHANGED healthVars

\* srv.Recv fails with another error and the failure is logged with Log.Fatal
RecvErr_Fatal(s) ==
    /\ ~exited
    /\ pc[s] = "Recv"
    /\ pc' = [pc EXCEPT ![s] = "Failed"]
    /\ retErr' = [retErr EXCEPT ![s] = "Unknown"]
    /\ exited' = TRUE
    /\ UNCHANGED <<ctxDone, recvd, sent, resp, fetchLog>>
    /\ UNCHANGED aggVars
    /\ UNCHANGED inspVars
    /\ UNCHANGED envVars
    /\ UNCHANGED mainVars
    /\ UNCHANGED healthVars

\* srv.Recv fails with another error
RecvErr(s) ==
    /\ ~exited
    /\ pc[s] = "Recv"
    /\ pc' = [pc EXCEPT ![s] = "Failed"]
    /\ retErr' = [retErr EXCEPT ![s] = "Unknown"]
    /\ UNCHANGED <<exited, ctxDone, recvd, sent, resp, fetchLog>>
    /\ UNCHANGED aggVars
    /\ UNCHANGED inspVars
    /\ UNCHANGED envVars
    /\ UNCHANGED mainVars
    /\ UNCHANGED healthVars

\* the loop going back to its head without calling srv.Send
SendOk_Dropped(s) ==
    /\ ~exited
    /\ pc[s] = "Send"
    /\ pc' = [pc EXCEPT ![s] = "Head"]
    /\ UNCHANGED <<exited, ctxDone, recvd, sent, resp, retErr, fetchLog>>
    /\ UNCHANGED aggVars
    /\ UNCHANGED inspVars
    /\ UNCHANGED envVars
    /\ UNCHANGED mainVars
    /\ UNCHANGED healthVars

\* srv.Send called twice with the same decision
SendOk_Twice(s) ==
    /\ ~exited
    /\ pc[s] = "Send"
    /\ sent' = [sent EXCEPT ![s] = Append(Append(@, resp[s]), resp[s])]
    /\ pc' = [pc EXCEPT ![s] = "Head"]
    /\ UNCHANGED <<exited, ctxDone, recvd, resp, retErr, fetchLog>>
    /\ UNCHANGED aggVars
    /\ UNCHANGED inspVars
    /\ UNCHANGED envVars
    /\ UNCHANGED mainVars
    /\ UNCHANGED healthVars

\* srv.Send(resp) succeeds; back to the head of the loop
SendOk(s) ==
    /\ ~exited
    /\ pc[s] = "Send"
    /\ sent' = [sent EXCEPT ![s] = Append(@, resp[s])]
    /\ pc' = [pc EXCEPT ![s] = "Head"]
    /\ UNCHANGED <<exited, ctxDone, recvd, resp, retErr, fetchLog>>
    /\ UNCHANGED aggVars
    /\ UNCHANGED inspVars
    /\ UNCHANGED envVars
    /\ UNCHANGED mainVars
    /\ UNCHANGED healthVars

\* srv.Send(resp) fails; the error is logged and the loop goes on
SendErr_Continue(s) ==
    /\ ~exited
    /\ pc[s] = "Send"
    /\ pc' = [pc EXCEPT ![s] = "Head"]
    /\ UNCHANGED <<exited, ctxDone, recvd, sent, resp, retErr, fetchLog>>
    /\ UNCHANGED aggVars
    /\ UNCHANGED inspVars
    /\ UNCHANGED envVars
    /\ UNCHANGED mainVars
    /\ UNCHANGED healthVars

\* srv.Send(resp) fails; the error is returned
SendErr(s) ==
    /\ ~exited
    /\ pc[s] = "Send"
    /\ pc' = [pc EXCEPT ![s] = "Failed"]
    /\ retErr' = [retErr EXCEPT ![s] = "sendErr"]
    /\ UNCHANGED <<exited, ctxDone, recvd, sent, resp, fetchLog>>
    /\ UNCHANGED aggVars
    /\ UNCHANGED inspVars
    /\ UNCHANGED envVars
    /\ UNCHANGED mainVars
    /\ UNCHANGED healthVars

----------------------------------------------------------------------------
(* Server.fetchAggregatedResources and its two goroutines.                 *)

\* one backend call, as recorded in fetchLog
FetchRecord(s, id, outcome, result) ==
    [ev |-> Len(recvd[s]), id |-> id, outcome |-> outcome, result |-> result]

\* outcomes of a fetch that end the process: http.Get fails or Decode fails under
\* Log.Fatal, or the deferred Body.Close fails and the goroutine panics
AlbumsFatalOutcomes == {"transport", "decode", "close"}
PostsFatalOutcomes == {"transport", "close"}

\* wg.Add(1); go func(id string) { albumsResp = s.fetchAlbums(id, &wg) }(id)
SpawnAlbums(s) ==
    /\ ~exited
    /\ pc[s] = "FanOutAlbums"
    /\ wg' = [wg EXCEPT ![s] = @ + 1]
    /\ gAlbums' = [gAlbums EXCEPT ![s] = [pc |-> "running", id |-> userId[s], ret |-> NilSlice]]
    /\ pc' = [pc EXCEPT ![s] = "FanOutPosts"]
    /\ UNCHANGED <<exited, ctxDone, recvd, sent, resp, retErr, fetchLog>>
    /\ UNCHANGED <<userId, albumsResp, postsResp, aggregatedData, gPosts>>
    /\ UNCHANGED inspVars
    /\ UNCHANGED envVars
    /\ UNCHANGED mainVars
    /\ UNCHANGED healthVars

\* wg.Add(1); go func(id string) { postsResp = s.fetchPosts(id, &wg) }(id)
SpawnPosts(s) ==
    /\ ~exited
    /\ pc[s] = "FanOutPosts"
    /\ wg' = [wg EXCEPT ![s] = @ + 1]
    /\ gPosts' = [gPosts EXCEPT ![s] = [pc |-> "running", id |-> userId[s], ret |-> NilSlice]]
    /\ pc' = [pc EXCEPT ![s] = "Wait"]
    /\ UNCHANGED <<exited, ctxDone, recvd, sent, resp, retErr, fetchLog>>
    /\ UNCHANGED <<userId, albumsResp, postsResp, aggregatedData, gAlbums>>
    /\ UNCHANGED inspVars
    /\ UNCHANGED envVars
    /\ UNCHANGED mainVars
    /\ UNCHANGED healthVars

\* fetchAlbums runs to its return: the reply decodes, the deferred wg.Done runs, the
\* value is on its way to the caller
FetchAlbumsOk(s, doc) ==
    /\ ~exited
    /\ gAlbums[s].pc = "running"
    /\ gAlbums' = [gAlbums EXCEPT ![s] = [@ EXCEPT !.pc = "returned", !.ret = DecodeAlbums(doc)]]
    /\ wg' = [wg EXCEPT ![s] = @ - 1]
    /\ fetchLog' = [fetchLog EXCEPT ![s].Albums =
                        Append(@, FetchRecord(s, gAlbums[s].id, "ok", DecodeAlbums(doc)))]
    /\ UNCHANGED <<exited, pc, ctxDone, recvd, sent, resp, retErr>>
    /\ UNCHANGED <<userId, albumsResp, postsResp, aggregatedData, gPosts>>
    /\ UNCHANGED inspVars
    /\ UNCHANGED envVars
    /\ UNCHANGED mainVars
    /\ UNCHANGED healthVars

\* fetchAlbums fails: Log.Fatal (or the panic of the deferred Close) ends the process
FetchAlbumsFatal(s, outcome) ==
    /\ ~exited
    /\ gAlbums[s].pc = "running"
    /\ exited' = TRUE
    /\ fetchLog' = [fetchLog EXCEPT ![s].Albums =
                        Append(@, FetchRecord(s, gAlbums[s].id, outcome, NilSlice))]
    /\ UNCHANGED <<pc, ctxDone, recvd, sent, resp, retErr>>
    /\ UNCHANGED aggVars
    /\ UNCHANGED inspVars
    /\ UNCHANGED envVars
    /\ UNCHANGED mainVars
    /\ UNCHANGED healthVars

\* fetchPosts running to its return without the deferred wg.Done()
FetchPostsOk_NoDone(s, doc) ==
    /\ ~exited
    /\ gPosts[s].pc = "running"
    /\ gPosts' = [gPosts EXCEPT ![s] = [@ EXCEPT !.pc = "returned", !.ret = DecodePosts(doc)]]
    /\ fetchLog' = [fetchLog EXCEPT ![s].Posts =
                        Append(@, FetchRecord(s, gPosts[s].id, "ok", DecodePosts(doc)))]
    /\ UNCHANGED <<exited, pc, ctxDone, recvd, sent, resp, retErr>>
    /\ UNCHANGED <<userId, wg, albumsResp, postsResp, aggregatedData, gAlbums>>
    /\ UNCHANGED inspVars
    /\ UNCHANGED envVars
    /\ UNCHANGED mainVars
    /\ UNCHANGED healthVars

\* fetchPosts runs to its return with a decoded reply
FetchPostsOk(s, doc) ==
    /\ ~exited
    /\ gPosts[s].pc = "running"
    /\ gPosts' = [gPosts EXCEPT ![s] = [@ EXCEPT !.pc = "returned", !.ret = DecodePosts(doc)]]
    /\ wg' = [wg EXCEPT ![s] = @ - 1]
    /\ fetchLog' = [fetchLog EXCEPT ![s].Posts =
                        Append(@, FetchRecord(s, gPosts[s].id, "ok", DecodePosts(doc)))]
    /\ UNCHANGED <<exited, pc, ctxDone, recvd, sent, resp, retErr>>
    /\ UNCHANGED <<userId, albumsResp, postsResp, aggregatedData, gAlbums>>
    /\ UNCHANGED inspVars
    /\ UNCHANGED envVars
    /\ UNCHANGED mainVars
    /\ UNCHANGED healthVars

\* fetchPosts: Decode fails, Log.Error, and postResp is returned as Decode left it
FetchPostsDecodeErr(s, left) ==
    /\ ~exited
    /\ gPosts[s].pc = "running"
    /\ gPosts' = [gPosts EXCEPT ![s] = [@ EXCEPT !.pc = "returned", !.ret = left]]
    /\ wg' = [wg EXCEPT ![s] = @ - 1]
    /\ fetchLog' = [fetchLog EXCEPT ![s].Posts =
                        Append(@, FetchRecord(s, gPosts[s].id, "decode", left))]
    /\ UNCHANGED <<exited, pc, ctxDone, recvd, sent, resp, retErr>>
    /\ UNCHANGED <<userId, albumsResp, postsResp, aggregatedData, gAlbums>>
    /\ UNCHANGED inspVars
    /\ UNCHANGED envVars
    /\ UNCHANGED mainVars
    /\ UNCHANGED healthVars

\* fetchPosts: http.Get fails under Log.Fatal (or the deferred Close panics)
FetchPostsFatal(s, outcome) ==
    /\ ~exited
    /\ gPosts[s].pc = "running"
    /\ exited' = TRUE
    /\ fetchLog' = [fetchLog EXCEPT ![s].Posts =
                        Append(@, FetchRecord(s, gPosts[s].id, outcome, NilSlice))]
    /\ UNCHANGED <<pc, ctxDone, recvd, sent, resp, retErr>>
    /\ UNCHANGED aggVars
    /\ UNCHANGED inspVars
    /\ UNCHANGED envVars
    /\ UNCHANGED mainVars
    /\ UNCHANGED healthVars

\* the goroutine's assignment albumsResp = <value returned by fetchAlbums>
StoreAlbums(s) ==
    /\ ~exited
    /\ gAlbums[s].pc = "returned"
    /\ albumsResp' = [albumsResp EXCEPT ![s] = gAlbums[s].ret]
    /\ gAlbums' = [gAlbums EXCEPT ![s].pc = "stored"]
    /\ UNCHANGED <<exited, pc, ctxDone, recvd, sent, resp, retErr, fetchLog>>
    /\ UNCHANGED <<userId, wg, postsResp, aggregatedData, gPosts>>
    /\ UNCHANGED inspVars
    /\ UNCHANGED envVars
    /\ UNCHANGED mainVars
    /\ UNCHANGED healthVars

\* the goroutine's assignment postsResp = <value returned by fetchPosts>
StorePosts(s) ==
    /\ ~exited
    /\ gPosts[s].pc = "returned"
    /\ postsResp' = [postsResp EXCEPT ![s] = gPosts[s].ret]
    /\ gPosts' = [gPosts EXCEPT ![s].pc = "stored"]
    /\ UNCHANGED <<exited, pc, ctxDone, recvd, sent, resp, retErr, fetchLog>>
    /\ UNCHANGED <<userId, wg, albumsResp, aggregatedData, gAlbums>>
    /\ UNCHANGED inspVars
    /\ UNCHANGED envVars
    /\ UNCHANGED mainVars
    /\ UNCHANGED healthVars

\* wg.Wait() returns once the counter is zero
Wait(s) ==
    /\ ~exited
    /\ pc[s] = "Wait"
    /\ wg[s] = 0
    /\ pc' = [pc EXCEPT ![s] = "MergeAlbums"]
    /\ UNCHANGED <<exited, ctxDone, recvd, sent, resp, retErr, fetchLog>>
    /\ UNCHANGED aggVars
    /\ UNCHANGED inspVars
    /\ UNCHANGED envVars
    /\ UNCHANGED mainVars
    /\ UNCHANGED healthVars

\* aggregatedData.Albums = albumsResp.  Nothing orders this read after the goroutine's
\* assignment: it sees the stored value or nil, as the interleaving with StoreAlbums decides
MergeAlbums(s) ==
    /\ ~exited
    /\ pc[s] = "MergeAlbums"
    /\ aggregatedData' = [aggregatedData EXCEPT ![s].Albums = albumsResp[s]]
    /\ pc' = [pc EXCEPT ![s] = "MergePosts"]
    /\ UNCHANGED <<exited, ctxDone, recvd, sent, resp, retErr, fetchLog>>
    /\ UNCHANGED <<userId, wg, albumsResp, postsResp, gAlbums, gPosts>>
    /\ UNCHANGED inspVars
    /\ UNCHANGED envVars
    /\ UNCHANGED mainVars
    /\ UNCHANGED healthVars

\* aggregatedData.Posts = postsResp; json.Marshal; aggregateServices wraps the body in
\* a CONTINUE_AND_REPLACE response and Process wraps that for the stream.  The call's
\* locals go out of scope: a goroutine that has yet to store writes to a variable that
\* nothing reads any more.
MergePosts(s) ==
    /\ ~exited
    /\ pc[s] = "MergePosts"
    /\ resp' = [resp EXCEPT ![s] =
                    ReplaceResponse(Marshal([aggregatedData[s] EXCEPT !.Posts = postsResp[s]]))]
    /\ pc' = [pc EXCEPT ![s] = "Send"]
    /\ userId' = [userId EXCEPT ![s] = ""]
    /\ albumsResp' = [albumsResp EXCEPT ![s] = NilSlice]
    /\ postsResp' = [postsResp EXCEPT ![s] = NilSlice]
    /\ aggregatedData' = [aggregatedData EXCEPT ![s] = EmptyAggregate]
    /\ gAlbums' = [gAlbums EXCEPT ![s] = NoGoroutine]
    /\ gPosts' = [gPosts EXCEPT ![s] = NoGoroutine]
    /\ UNCHANGED <<exited, ctxDone, recvd, sent, retErr, fetchLog, wg>>
    /\ UNCHANGED inspVars
    /\ UNCHANGED envVars
    /\ UNCHANGED mainVars
    /\ UNCHANGED healthVars

----------------------------------------------------------------------------

Next ==
    \/ \E s \in Streams : Open(s)
    \/ \E s \in Streams : Cancel(s)
    \/ \E s \in Streams : SelectCtx(s)
    \/ \E s \in Streams : \E ev \in Events : RecvMsg(s, ev)
    \/ \E s \in Streams : RecvEOF(s)
    \/ \E s \in Streams : RecvErr(s)
    \/ \E s \in Streams : SpawnAlbums(s)
    \/ \E s \in Streams : SpawnPosts(s)
    \/ \E s \in Streams : \E doc \in AlbumReplies : FetchAlbumsOk(s, doc)
    \/ \E s \in Streams : \E o \in AlbumsFatalOutcomes : FetchAlbumsFatal(s, o)
    \/ \E s \in Streams : \E doc \in PostReplies : FetchPostsOk(s, doc)
    \/ \E s \in Streams : \E left \in PartialPosts : FetchPostsDecodeErr(s, left)
    \/ \E s \in Streams : \E o \in PostsFatalOutcomes : FetchPostsFatal(s, o)
    \/ \E s \in Streams : StoreAlbums(s)
    \/ \E s \in Streams : StorePosts(s)
    \/ \E s \in Streams : Wait(s)
    \/ \E s \in Streams : MergeAlbums(s)
    \/ \E s \in Streams : MergePosts(s)
    \/ \E s \in Streams : SendOk(s)
    \/ \E s \in Streams : SendErr(s)

Spec == Init /\ [][Next]_vars

SpecStreams == InitStreams /\ [][Next]_vars

----------------------------------------------------------------------------
(* The header inspector on its own, over every header sequence of up to    *)
(* MaxHeaders entries.                                                     *)

----------------------------------------------------------------------------
(* start(): the signal context, the errgroup and the graceful stop.        *)

\* one stream, for the runs of start() and of the health service
InitServer ==
    /\ openable = {"s1"}
    /\ budget = MaxStreamEvents
    /\ Start
    /\ InspectorIdle

\* SIGTERM or SIGINT arrives: the context of signal.NotifyContext is done
Signal ==
    /\ ~exited
    /\ mainPc = "Serving"
    /\ mainPc' = "Signalled"
    /\ UNCHANGED <<exited, exitCode, fetchLog>>
    /\ UNCHANGED streamVars
    /\ UNCHANGED aggVars
    /\ UNCHANGED inspVars
    /\ UNCHANGED envVars
    /\ UNCHANGED healthVars

\* s.Serve returns an error: the errgroup cancels its context and keeps the error
ServeFails ==
    /\ ~exited
    /\ mainPc = "Serving"
    /\ mainPc' = "Signalled"
    /\ exitCode' = 1
    /\ UNCHANGED <<exited, fetchLog>>
    /\ UNCHANGED streamVars
    /\ UNCHANGED aggVars
    /\ UNCHANGED inspVars
    /\ UNCHANGED envVars
    /\ UNCHANGED healthVars

\* <-ctx.Done() returns and s.GracefulStop() is called: the listener is closed and
\* the call waits for the streams in flight
BeginGracefulStop ==
    /\ ~exited
    /\ mainPc = "Signalled"
    /\ mainPc' = "Stopping"
    /\ UNCHANGED <<exited, exitCode, fetchLog>>
    /\ UNCHANGED streamVars
    /\ UNCHANGED aggVars
    /\ UNCHANGED inspVars
    /\ UNCHANGED envVars
    /\ UNCHANGED healthVars

\* every handler has returned: GracefulStop returns, eg.Wait returns, start() returns
\* and main calls os.Exit
FinishGracefulStop ==
    /\ ~exited
    /\ mainPc = "Stopping"
    /\ \A s \in Streams : pc[s] \in Terminal \cup {"NotStarted"}
    /\ mainPc' = "Returned"
    /\ exited' = TRUE
    /\ UNCHANGED <<exitCode, fetchLog>>
    /\ UNCHANGED streamVars
    /\ UNCHANGED aggVars
    /\ UNCHANGED inspVars
    /\ UNCHANGED envVars
    /\ UNCHANGED healthVars

NextShutdown ==
    \/ Next
    \/ Signal
    \/ ServeFails
    \/ BeginGracefulStop
    \/ FinishGracefulStop

SpecShutdown == InitServer /\ [][NextShutdown]_vars

----------------------------------------------------------------------------
(* The health service registered on the same gRPC server.                  *)

\* the service names a health request may carry
HealthServices == {"", "envoy.service.ext_proc.v3.ExternalProcessor"}

\* a Check that answers NOT_SERVING once a processing stream has failed
Check_NotServingAfterFailure(service) ==
    /\ ~exited
    /\ mainPc \in {"Serving", "Signalled"}
    /\ checkResp' = [service |-> service,
                     status |-> IF \E s \in Streams : pc[s] = "Failed"
                                THEN "NOT_SERVING" ELSE "SERVING",
                     err |-> "nil"]
    /\ UNCHANGED <<exited, fetchLog, watchResp>>
    /\ UNCHANGED streamVars
    /\ UNCHANGED aggVars
    /\ UNCHANGED inspVars
    /\ UNCHANGED envVars
    /\ UNCHANGED mainVars

\* HealthServer.Check: logs the request and returns SERVING with a nil error
Check(service) ==
    /\ ~exited
    /\ mainPc \in {"Serving", "Signalled"}
    /\ checkResp' = [service |-> service, status |-> "SERVING", err |-> "nil"]
    /\ UNCHANGED <<exited, fetchLog, watchResp>>
    /\ UNCHANGED streamVars
    /\ UNCHANGED aggVars
    /\ UNCHANGED inspVars
    /\ UNCHANGED envVars
    /\ UNCHANGED mainVars

\* HealthServer.Watch: returns the Unimplemented status without touching its stream
Watch(service) ==
    /\ ~exited
    /\ mainPc \in {"Serving", "Signalled"}
    /\ watchResp' = [service |-> service, err |-> "Unimplemented", sent |-> 0]
    /\ UNCHANGED <<exited, fetchLog, checkResp>>
    /\ UNCHANGED streamVars
    /\ UNCHANGED aggVars
    /\ UNCHANGED inspVars
    /\ UNCHANGED envVars
    /\ UNCHANGED mainVars

NextHealth ==
    \/ Next
    \/ \E service \in HealthServices : Check(service)
    \/ \E service \in HealthServices : Watch(service)

SpecHealth == InitServer /\ [][NextHealth]_vars

----------------------------------------------------------------------------
(* The goroutines of one stream under a fair scheduler.                    *)

\* a step of the goroutine that runs Process for stream s
HandlerStep(s) ==
    \/ SelectCtx(s)
    \/ SpawnAlbums(s)
    \/ SpawnPosts(s)
    \/ Wait(s)
    \/ MergeAlbums(s)
    \/ MergePosts(s)
    \/ SendOk(s)
    \/ SendErr(s)

\* a step of the goroutine that runs fetchAlbums for stream s
AlbumsStep(s) ==
    \/ \E doc \in AlbumReplies : FetchAlbumsOk(s, doc)
    \/ \E o \in AlbumsFatalOutcomes : FetchAlbumsFatal(s, o)
    \/ StoreAlbums(s)

\* a step of the goroutine that runs fetchPosts for stream s
PostsStep(s) ==
    \/ \E doc \in PostReplies : FetchPostsOk(s, doc)
    \/ \E left \in PartialPosts : FetchPostsDecodeErr(s, left)
    \/ \E o \in PostsFatalOutcomes : FetchPostsFatal(s, o)
    \/ StorePosts(s)

\* every goroutine that can run is run in the end, and every http.Get comes back
Fairness ==
    \A s \in Streams :
        /\ WF_vars(HandlerStep(s))
        /\ WF_vars(AlbumsStep(s))
        /\ WF_vars(PostsStep(s))

SpecLive == InitServer /\ [][Next]_vars /\ Fairness

HeaderEntries == {HeaderValue(k, v) : k \in Keys, v \in RawValues}
HeaderSeqs == UNION {[1..n -> HeaderEntries] : n \in 0..MaxHeaders}

InitInspector ==
    /\ openable = {}
    /\ budget = 0
    /\ Start
    /\ inspIn \in HeaderSeqs
    /\ inspOut = ""
    /\ inspPc = "ready"

\* one call of getUserIdFromHeaders
Inspect ==
    /\ inspPc = "ready"
    /\ inspOut' = getUserIdFromHeaders(inspIn)
    /\ inspPc' = "done"
    /\ UNCHANGED inspIn
    /\ UNCHANGED <<exited, fetchLog>>
    /\ UNCHANGED streamVars
    /\ UNCHANGED aggVars
    /\ UNCHANGED envVars
    /\ UNCHANGED mainVars
    /\ UNCHANGED healthVars

NextInspector == Inspect

SpecInspector == InitInspector /\ [][NextInspector]_vars

----------------------------------------------------------------------------
(* Vocabulary of the properties, stated without the operators that model   *)
(* the code.                                                               *)

\* lower-casing of the ASCII letters only
AsciiLowerRune(c) ==
    CASE c = "U" -> "u"
      [] c = "S" -> "s"
      [] c = "E" -> "e"
      [] c = "R" -> "r"
      [] c = "I" -> "i"
      [] c = "D" -> "d"
      [] OTHER -> c

\* k is "userid" up to the case of its ASCII letters
IsAsciiCaseOfUserId(k) ==
    /\ Len(k) = Len(UserIdKey)
    /\ \A i \in DOMAIN k : AsciiLowerRune(k[i]) = UserIdKey[i]

\* k is "userid" once strings.ToLower has lower-cased it
LowerCasesToUserId(k) == ToLower(k) = UserIdKey

Least(S) == CHOOSE i \in S : \A j \in S : i <= j

\* positions of the entries that carry the identifier key
AsciiHits(headers) == {i \in DOMAIN headers : IsAsciiCaseOfUserId(headers[i].Key)}
LowerHits(headers) == {i \in DOMAIN headers : LowerCasesToUserId(headers[i].Key)}

HasIdentifierKey(headers) == LowerHits(headers) # {}

\* raw value of the first entry that carries the identifier key, "" without one
FirstIdentifierValue(headers) ==
    IF LowerHits(headers) = {} THEN "" ELSE headers[Least(LowerHits(headers))].RawValue

\* everything the handler of stream s holds: its loop position, its context, what it
\* received and sent, and the locals of its aggregation
StreamState(s) ==
    <<pc[s], ctxDone[s], recvd[s], sent[s], resp[s], retErr[s], userId[s], wg[s],
      albumsResp[s], postsResp[s], aggregatedData[s], gAlbums[s], gPosts[s], fetchLog[s]>>

InAggregation(s) == pc[s] \in {"FanOutAlbums", "FanOutPosts", "Wait", "MergeAlbums", "MergePosts"}

\* Process has finished building the decision for the i-th event of stream s
Built(s, i) == i < Len(recvd[s]) \/ (i = Len(recvd[s]) /\ ~InAggregation(s))

\* the backend calls of one kind made for the i-th event of stream s
FetchesFor(s, kind, i) == {k \in DOMAIN fetchLog[s][kind] : fetchLog[s][kind][k].ev = i}

\* a backend call made for the i-th event of stream s failed
FetchFailedFor(s, i) ==
    \E kind \in {"Albums", "Posts"} :
        \E k \in FetchesFor(s, kind, i) : fetchLog[s][kind][k].outcome # "ok"

\* both backend calls for the i-th event of stream s were made and succeeded
BothFetchedOk(s, i) ==
    \A kind \in {"Albums", "Posts"} :
        /\ FetchesFor(s, kind, i) # {}
        /\ \A k \in FetchesFor(s, kind, i) : fetchLog[s][kind][k].outcome = "ok"

IsReplace(d) ==
    /\ d.oneof = "RequestHeaders"
    /\ Len(d.response) = 1
    /\ d.response[1].Status = "CONTINUE_AND_REPLACE"
    /\ Len(d.response[1].BodyMutation) = 1

BodyOf(d) == d.response[1].BodyMutation[1]

\* d is a decision Process builds for event ev
DecisionFor(ev, d) ==
    IF ev.kind = "RequestHeaders"
    THEN IF FirstIdentifierValue(ev.headers) = "" THEN d = PassthroughResponse ELSE IsReplace(d)
    ELSE d = EmptyResponse

\* a JSON array holds the albums of a slice, element for element and in order
SameAlbums(arr, sl) ==
    /\ ~arr.null
    /\ ~sl.nil
    /\ Len(arr.items) = Len(sl.elems)
    /\ \A k \in DOMAIN arr.items :
        /\ arr.items[k].id = sl.elems[k].Id
        /\ arr.items[k].userId = sl.elems[k].UserId
        /\ arr.items[k].title = sl.elems[k].Title

\* a JSON array holds the posts of a slice, element for element and in order
SamePosts(arr, sl) ==
    /\ ~arr.null
    /\ ~sl.nil
    /\ Len(arr.items) = Len(sl.elems)
    /\ \A k \in DOMAIN arr.items :
        /\ arr.items[k].id = sl.elems[k].Id
        /\ arr.items[k].userId = sl.elems[k].UserId
        /\ arr.items[k].title = sl.elems[k].Title
        /\ arr.items[k].body = sl.elems[k].Body

----------------------------------------------------------------------------
(* Properties.                                                             *)

\* C1: a stream that ends by a clean peer close has sent exactly one decision per
\* event received, the i-th decision being the one built for the i-th event; and
\* at no time has the (i+1)-th event been received before the i-th decision is sent.
C1_PairingOnPeerClose ==
    \A s \in Streams :
        /\ Len(recvd[s]) <= Len(sent[s]) + 1
        /\ pc[s] = "ClosedByPeer" =>
            /\ retErr[s] = "nil"
            /\ Len(sent[s]) = Len(recvd[s])
            /\ \A i \in DOMAIN recvd[s] : DecisionFor(recvd[s][i], sent[s][i])

\* a stream closed cleanly after an aggregated request-headers event and an event of
\* another variant, both answered
C1_Witness ==
    \E s \in Streams :
        /\ pc[s] = "ClosedByPeer"
        /\ Len(recvd[s]) = 2
        /\ recvd[s][1].kind = "RequestHeaders"
        /\ IsReplace(sent[s][1])
        /\ recvd[s][2].kind = "ResponseBody"
        /\ sent[s][2] = EmptyResponse

\* C2: once the stream's context is cancelled, no decision is sent on the stream.
C2_NoDecisionAfterCancellation ==
    [][\A s \in Streams : ctxDone[s] => sent'[s] = sent[s]]_vars

\* C3: the merge reads albumsResp and postsResp only after the goroutine of each has
\* stored its result there.
C3_MergeAfterBothStored ==
    \A s \in Streams :
        /\ pc[s] = "MergeAlbums" => gAlbums[s].pc = "stored"
        /\ pc[s] = "MergePosts" => gPosts[s].pc = "stored"

\* C4: the aggregation hands back a payload only when both fetches succeeded.
C4_PayloadOnlyWhenBothFetchesSucceed ==
    \A s \in Streams :
        (pc[s] = "Send" /\ IsReplace(resp[s])) => ~FetchFailedFor(s, Len(recvd[s]))

\* C5: a failed backend call leaves the process running.
C5_BackendFailureKeepsProcessRunning ==
    (\E s \in Streams : \E i \in DOMAIN recvd[s] : FetchFailedFor(s, i)) => ~exited

\* C6: the decision sent for a request-headers event one of whose fetches failed
\* carries no mutation.
C6_FailedAggregationSendsNoBody ==
    \A s \in Streams : \A i \in DOMAIN sent[s] :
        FetchFailedFor(s, i) => sent[s][i] = PassthroughResponse

\* C7: a request-headers event none of whose header keys is "userid" in any letter
\* case gets the empty headers decision, and no backend call is made for it, each
\* time such a header set is received.
C7_NoIdentifierPassthrough ==
    \A s \in Streams : \A i \in DOMAIN recvd[s] :
        (recvd[s][i].kind = "RequestHeaders" /\ ~HasIdentifierKey(recvd[s][i].headers)) =>
            /\ Built(s, i)
            /\ FetchesFor(s, "Albums", i) = {}
            /\ FetchesFor(s, "Posts", i) = {}
            /\ i \in DOMAIN sent[s] => sent[s][i] = PassthroughResponse
            /\ (i = Len(recvd[s]) /\ pc[s] = "Send") => resp[s] = PassthroughResponse

\* the same header set without the identifier, received twice and passed through twice
C7_Witness ==
    \E s \in Streams :
        /\ Len(sent[s]) = 2
        /\ recvd[s][1].kind = "RequestHeaders"
        /\ recvd[s][1].headers # <<>>
        /\ ~HasIdentifierKey(recvd[s][1].headers)
        /\ recvd[s][2] = recvd[s][1]
        /\ sent[s][1] = PassthroughResponse
        /\ sent[s][2] = PassthroughResponse

\* C8 as claimed: whenever a request-headers event has an entry with the identifier
\* key, whatever its value, the decision is built from one albums call and one posts
\* call made with the first such entry's raw value.
C8_PresenceTriggersAggregation ==
    \A s \in Streams : \A i \in DOMAIN recvd[s] :
        (recvd[s][i].kind = "RequestHeaders" /\ HasIdentifierKey(recvd[s][i].headers)
            /\ Built(s, i)) =>
            \A kind \in {"Albums", "Posts"} :
                /\ Cardinality(FetchesFor(s, kind, i)) = 1
                /\ \A k \in FetchesFor(s, kind, i) :
                    fetchLog[s][kind][k].id = FirstIdentifierValue(recvd[s][i].headers)

\* C8 as amended: a request-headers event whose first identifier entry has a non-empty
\* raw value has its decision built from exactly one albums call and one posts call,
\* both made with that value, and never more than one of each is made; an event
\* without the entry, or whose first such entry is empty, is passed through with no
\* backend call.
C8_NonEmptyIdentifierTriggersAggregation ==
    \A s \in Streams : \A i \in DOMAIN recvd[s] :
        recvd[s][i].kind = "RequestHeaders" =>
            LET v == FirstIdentifierValue(recvd[s][i].headers)
            IN  /\ \A kind \in {"Albums", "Posts"} :
                    /\ Cardinality(FetchesFor(s, kind, i)) <= 1
                    /\ \A k \in FetchesFor(s, kind, i) :
                        fetchLog[s][kind][k].id = v /\ v # ""
                    /\ (v # "" /\ Built(s, i)) => Cardinality(FetchesFor(s, kind, i)) = 1
                /\ i \in DOMAIN sent[s] => (sent[s][i] = PassthroughResponse <=> v = "")
                /\ (v # "" /\ i \in DOMAIN sent[s]) => IsReplace(sent[s][i])

\* an event with two identifier entries in different case has been answered after one
\* albums call and one posts call with the first entry's value
C8_Witness ==
    \E s \in Streams :
        /\ Len(sent[s]) >= 1
        /\ recvd[s][1].kind = "RequestHeaders"
        /\ Cardinality(LowerHits(recvd[s][1].headers)) = 2
        /\ FirstIdentifierValue(recvd[s][1].headers) = "2"
        /\ Cardinality(FetchesFor(s, "Albums", 1)) = 1
        /\ Cardinality(FetchesFor(s, "Posts", 1)) = 1
        /\ fetchLog[s].Posts[1].id = "2"
        /\ IsReplace(sent[s][1])

\* C9: the decision sent for a request-headers event both of whose fetches succeeded
\* replaces the body by a document whose albums and posts arrays are the two fetch
\* results, element for element.
C9_ReplacementBodyEqualsFetchResults ==
    \A s \in Streams : \A i \in DOMAIN sent[s] :
        BothFetchedOk(s, i) =>
            /\ IsReplace(sent[s][i])
            /\ \A k \in FetchesFor(s, "Albums", i) :
                SameAlbums(BodyOf(sent[s][i]).albums, fetchLog[s].Albums[k].result)
            /\ \A k \in FetchesFor(s, "Posts", i) :
                SamePosts(BodyOf(sent[s][i]).posts, fetchLog[s].Posts[k].result)

\* C10 as claimed: the inspector returns the raw value of the first entry whose key is
\* "userid" up to ASCII case, and the absent result (the empty string) only when no
\* entry matches.
C10_FirstAsciiMatchElseAbsent ==
    inspPc = "done" =>
        /\ AsciiHits(inspIn) # {} => inspOut = inspIn[Least(AsciiHits(inspIn))].RawValue
        /\ inspOut = "" => AsciiHits(inspIn) = {}

\* C10 as amended: the inspector returns the raw value of the first entry whose key
\* strings.ToLower turns into "userid", which every ASCII case variant of the key
\* does, and the empty string when there is no such entry.
C10_FirstLowerCasedMatchElseEmpty ==
    inspPc = "done" =>
        /\ AsciiHits(inspIn) \subseteq LowerHits(inspIn)
        /\ IF LowerHits(inspIn) = {}
           THEN inspOut = ""
           ELSE inspOut = inspIn[Least(LowerHits(inspIn))].RawValue

\* two entries carry the key in different case; the value of the first is returned
C10_Witness ==
    /\ inspPc = "done"
    /\ Len(inspIn) = 2
    /\ inspIn[1].Key = <<"U", "S", "E", "R", "I", "D">>
    /\ inspIn[2].Key = <<"u", "s", "e", "r", "i", "d">>
    /\ inspIn[1].RawValue = "2"
    /\ inspIn[2].RawValue = "1"
    /\ inspOut = "2"

\* C11: for every received event of a variant other than request headers, the unset
\* variant included, Process builds the empty decision and hands it to Send once: no
\* backend call is made for the event, the decision sent for it is the empty one, the
\* loop goes on to the next receive only after it is sent, and the stream fails on
\* such an event only by a failing Send.
C11_NonAggregatingEventsGetEmptyDecision ==
    \A s \in Streams :
        \A i \in DOMAIN recvd[s] :
            recvd[s][i].kind \in NonHeaderKinds =>
                /\ Built(s, i)
                /\ FetchesFor(s, "Albums", i) = {}
                /\ FetchesFor(s, "Posts", i) = {}
                /\ i <= Len(sent[s]) => sent[s][i] = EmptyResponse
                /\ i > Len(sent[s]) =>
                    /\ i = Len(recvd[s])
                    /\ pc[s] \in {"Send", "Failed"}
                    /\ resp[s] = EmptyResponse
                    /\ pc[s] = "Failed" => retErr[s] = "sendErr"

\* an event of the unset variant and a response-body event, each answered by the empty
\* decision, on a stream that goes on
C11_Witness ==
    \E s \in Streams :
        /\ Len(recvd[s]) = 2
        /\ recvd[s][1].kind = "Unset"
        /\ recvd[s][2].kind = "ResponseBody"
        /\ sent[s] = <<EmptyResponse, EmptyResponse>>
        /\ pc[s] = "Recv"

\* C12: a stream enters ClosedByPeer only from a blocked Recv, and the step that takes
\* it there sends no decision, receives no event, starts no backend call and makes
\* Process return no error.
C12_PeerCloseEndsLoopSilently ==
    [][\A s \in Streams :
        (pc'[s] = "ClosedByPeer" /\ pc[s] # "ClosedByPeer") =>
            /\ pc[s] = "Recv"
            /\ sent'[s] = sent[s]
            /\ recvd'[s] = recvd[s]
            /\ fetchLog'[s] = fetchLog[s]
            /\ retErr'[s] = "nil"]_vars

\* the peer closes a stream on which one event was received and answered
C12_Witness ==
    \E s \in Streams :
        /\ pc[s] = "ClosedByPeer"
        /\ retErr[s] = "nil"
        /\ Len(recvd[s]) = 1
        /\ Len(sent[s]) = 1

\* C13: the step in which Recv fails on a stream with an error other than the clean
\* close ends that stream with the error status Unknown, sends no decision and
\* receives no event on it, leaves the state of every other stream as it was and
\* leaves the process running.
C13_ReceiveErrorFailsOnlyItsStream ==
    [][\A s \in Streams :
        (pc[s] = "Recv" /\ pc'[s] = "Failed") =>
            /\ retErr'[s] = "Unknown"
            /\ sent'[s] = sent[s]
            /\ recvd'[s] = recvd[s]
            /\ exited' = exited
            /\ \A o \in Streams \ {s} : StreamState(o)' = StreamState(o)]_vars

\* Recv has failed on one stream while the other holds a decision it has yet to send
C13_Witness ==
    \E s \in Streams :
        \E o \in Streams \ {s} :
            /\ pc[s] = "Failed"
            /\ retErr[s] = "Unknown"
            /\ sent[s] = <<>>
            /\ pc[o] = "Send"
            /\ Len(recvd[o]) = 1
            /\ ~exited

\* C14: with several streams open, the step that cancels the context of one stream
\* and the step in which that stream's loop stops on the cancellation leave every
\* other stream's position, context, received events, sent decisions and aggregation
\* locals as they were and leave the process running; a loop stops on a cancellation
\* only when its own context is cancelled; and no step at all changes what two
\* handlers hold.
C14_CancellationStopsOnlyItsStream ==
    [][\A s \in Streams :
        /\ (ctxDone'[s] /\ ~ctxDone[s]) =>
            /\ exited' = exited
            /\ \A o \in Streams \ {s} : StreamState(o)' = StreamState(o)
        /\ (pc'[s] = "ClosedByCancellation" /\ pc[s] # "ClosedByCancellation") =>
            /\ ctxDone[s]
            /\ exited' = exited
            /\ \A o \in Streams \ {s} : StreamState(o)' = StreamState(o)
        /\ StreamState(s)' # StreamState(s) =>
            \A o \in Streams \ {s} : StreamState(o)' = StreamState(o)]_vars

\* one stream has stopped on its cancellation; the other, not cancelled, has
\* received an event, sent its decision and waits for the next event
C14_Witness ==
    \E s \in Streams :
        \E o \in Streams \ {s} :
            /\ pc[s] = "ClosedByCancellation"
            /\ retErr[s] = "ctx.Err"
            /\ ~ctxDone[o]
            /\ Len(recvd[o]) = 1
            /\ Len(sent[o]) = 1
            /\ pc[o] = "Recv"

\* C17: on every stream and in every reachable state the number of decisions sent is
\* at most the number of events received and at least that number less one; while
\* Process stands at the head of the loop or in Recv every received event has its
\* decision sent, and while it builds or sends a decision exactly one is outstanding.
C17_SentWithinOneOfReceived ==
    \A s \in Streams :
        /\ Len(sent[s]) <= Len(recvd[s])
        /\ Len(recvd[s]) - 1 <= Len(sent[s])
        /\ pc[s] \in {"NotStarted", "Head", "Recv"} => Len(sent[s]) = Len(recvd[s])
        /\ (pc[s] = "Send" \/ InAggregation(s)) => Len(sent[s]) = Len(recvd[s]) - 1

\* the second event of a stream is received and its decision is yet to be sent
C17_Witness ==
    \E s \in Streams :
        /\ pc[s] = "Send"
        /\ Len(recvd[s]) = 2
        /\ Len(sent[s]) = 1

\* C18: a stream standing at the head of the loop with its context cancelled does
\* nothing but return the context's error: its next step receives nothing, sends
\* nothing and, when it leaves the head, ends in ClosedByCancellation with ctx.Err();
\* Recv is entered only from the head and only with the context not cancelled there.
C18_CancellationCheckedBeforeRecv ==
    [][\A s \in Streams :
        /\ (pc[s] = "Head" /\ ctxDone[s]) =>
            /\ recvd'[s] = recvd[s]
            /\ sent'[s] = sent[s]
            /\ pc'[s] \in {"Head", "ClosedByCancellation"}
            /\ pc'[s] = "ClosedByCancellation" => retErr'[s] = "ctx.Err"
        /\ (pc'[s] = "Recv" /\ pc[s] # "Recv") =>
            /\ pc[s] = "Head"
            /\ ~ctxDone[s]]_vars

\* a stream cancelled after its first decision has returned the context's error at
\* the loop head although a further event could still have been received
C18_Witness ==
    \E s \in Streams :
        /\ pc[s] = "ClosedByCancellation"
        /\ retErr[s] = "ctx.Err"
        /\ Len(recvd[s]) = 1
        /\ Len(sent[s]) = 1
        /\ TotalRecvd < budget

\* C19: a stream whose Process call has returned (by cancellation, peer close, a
\* receive error or a Send error) stays as it is: no step receives an event, sends a
\* decision, starts a backend call or changes the returned error on it; and a Send
\* that did not deliver its decision ends the stream in Failed with the Send's error,
\* so that the decision is not sent again and no later event is received.
C19_TerminalStatesAbsorbing ==
    [][\A s \in Streams :
        /\ pc[s] \in Terminal =>
            /\ pc'[s] = pc[s]
            /\ recvd'[s] = recvd[s]
            /\ sent'[s] = sent[s]
            /\ retErr'[s] = retErr[s]
            /\ fetchLog'[s] = fetchLog[s]
        /\ (pc[s] = "Send" /\ pc'[s] # "Send" /\ sent'[s] = sent[s]) =>
            /\ pc'[s] = "Failed"
            /\ retErr'[s] = "sendErr"]_vars

\* the Send of the first decision failed; the stream has ended with the Send's error
\* although a further event could still have been received
C19_Witness ==
    \E s \in Streams :
        /\ pc[s] = "Failed"
        /\ retErr[s] = "sendErr"
        /\ Len(recvd[s]) = 1
        /\ sent[s] = <<>>
        /\ TotalRecvd < budget

\* a step the server process takes by itself: any step but the arrival of a signal,
\* the opening of a stream, a cancellation, and an event, a close or an error coming
\* from the peer of a stream
ServerStep ==
    \/ BeginGracefulStop
    \/ FinishGracefulStop
    \/ \E s \in Streams :
        \/ SelectCtx(s)
        \/ SpawnAlbums(s)
        \/ SpawnPosts(s)
        \/ \E doc \in AlbumReplies : FetchAlbumsOk(s, doc)
        \/ \E o \in AlbumsFatalOutcomes : FetchAlbumsFatal(s, o)
        \/ \E doc \in PostReplies : FetchPostsOk(s, doc)
        \/ \E left \in PartialPosts : FetchPostsDecodeErr(s, left)
        \/ \E o \in PostsFatalOutcomes : FetchPostsFatal(s, o)
        \/ StoreAlbums(s)
        \/ StorePosts(s)
        \/ Wait(s)
        \/ MergeAlbums(s)
        \/ MergePosts(s)
        \/ SendOk(s)
        \/ SendErr(s)

\* C15: after the shutdown signal the process terminates whatever the peers of the
\* streams in flight do: as long as it has not terminated, the server has a step of
\* its own to take (finishing the pair in hand, stopping, or forcing the streams
\* down), and never has to wait for a peer to close a stream.
C15_ShutdownNeverWaitsOnPeer ==
    (mainPc \in {"Signalled", "Stopping"} /\ ~exited) => ENABLED ServerStep

\* C16: every Check call returns the status SERVING and no error, whatever service
\* the request names and whatever state the processing streams are in; every Watch
\* call returns the Unimplemented status and has sent nothing on its stream.
C16_CheckServingWatchUnimplemented ==
    /\ checkResp # NoCheck =>
        /\ checkResp.status = "SERVING"
        /\ checkResp.err = "nil"
    /\ watchResp # NoWatch =>
        /\ watchResp.err = "Unimplemented"
        /\ watchResp.sent = 0

\* Check was called for the processor's service name after a processing stream had
\* failed, and Watch was called as well
C16_Witness ==
    /\ checkResp.service = "envoy.service.ext_proc.v3.ExternalProcessor"
    /\ checkResp.status = "SERVING"
    /\ watchResp.err = "Unimplemented"
    /\ \E s \in Streams : pc[s] = "Failed"

\* C20: under fair scheduling every request-headers event received on a stream is
\* followed by its decision being sent, unless the stream's context is cancelled, the
\* Send fails, or a fetch ends the process instead of returning; in particular the
\* wait of fetchAggregatedResources is released whichever goroutine returns first.
C20_RequestHeadersEventuallyAnswered ==
    \A s \in Streams :
        \A i \in 1..MaxEvents :
            (Len(recvd[s]) >= i /\ recvd[s][i].kind = "RequestHeaders")
                ~> (Len(sent[s]) >= i \/ ctxDone[s] \/ exited \/ pc[s] = "Failed")

\* an aggregated request-headers event whose decision has been sent on a stream that
\* was not cancelled, in a process still running
C20_Witness ==
    \E s \in Streams :
        /\ Len(sent[s]) = 1
        /\ IsReplace(sent[s][1])
        /\ BothFetchedOk(s, 1)
        /\ ~ctxDone[s]
        /\ ~exited

====
